---- MODULE Spec2Model ----
(***************************************************************************)
(* Model of the two camera dialogs of quantix-inventory-ai:                *)
(*   src/src/components/ExpiryDateScannerDialog.tsx  (expiry-date dialog)  *)
(*   src/src/components/BarcodeScannerDialog.tsx     (barcode dialog)      *)
(*                                                                         *)
(* Both are React function components.  A closure created in a render sees *)
(* the state values of that render; an effect with dependency [open] keeps *)
(* the closures of the render in which open last changed.  The model keeps *)
(* these captured values explicitly.                                       *)
(***************************************************************************)
EXTENDS Integers, Sequences, FiniteSets, TLC

\* ------------------------------------------------------------------ bounds
MaxOpens == 2      \* times a dialog is opened in one behaviour
MaxScans == 2      \* captureAndScan clicks in one behaviour
MaxFrags == 2      \* fragments concatenated into one recognized text
MaxRetries == 1    \* clicks on the retry button in one behaviour
MaxResults == 2    \* detection results that carry a barcode in one behaviour
MaxTicks == 8      \* clock ticks in one behaviour
TickMs == 400      \* length of one clock tick
NowStart == 5000   \* Date.now() when the component is mounted

\* --------------------------------------------------------------- variables
VARIABLES
  \* expiry-date dialog
  expOpen,        \* prop open
  expMounted,     \* the component instance is mounted
  isScanning,     \* useState isScanning
  stream,         \* useState stream: 0 is null, else the id of a MediaStream
  effectStream,   \* value of stream in the render whose effect ran last
  expLive,        \* ids of acquired streams whose tracks are not stopped
  expAcquired,    \* number of streams getUserMedia has handed out
  pendingCam,     \* startCamera calls awaiting getUserMedia
  pendingOcr,     \* captureAndScan calls awaiting Tesseract.recognize
  expSess,        \* number of opens so far (the current open/close cycle)
  scans,          \* number of captureAndScan clicks so far
  lastOcr,        \* what captureAndScan did when the last step completed one
  tzWest,         \* the local time zone is west of UTC
  engine          \* Date-parsing family of the JavaScript engine

  \* barcode dialog
VARIABLES
  bOpen,          \* prop open
  bMounted,       \* the component instance is mounted
  content,        \* the DialogContent subtree is in the DOM
  native,         \* "BarcodeDetector" in window
  now,            \* Date.now()
  bar,            \* state, refs, running startScanning calls, live streams
  startTimers,    \* pending setTimeout(startScanning, 100)
  deliveries,     \* pending setTimeout(deliver, 800)
  bSess,          \* number of opens so far (the current open/close cycle)
  retries,        \* clicks on the retry button so far
  results,        \* detection results with a barcode so far
  detected,       \* onDetected calls per open/close cycle
  bCalls          \* what the delivery callback called in the last step, in order

bvars == <<bOpen, bMounted, content, native, now, bar, startTimers,
           deliveries, bSess, retries, results, detected, bCalls>>

evars == <<expOpen, expMounted, isScanning, stream, effectStream, expLive,
           expAcquired, pendingCam, pendingOcr, expSess, scans,
           lastOcr, tzWest, engine>>

vars == <<evars, bvars>>

\* ------------------------------------------------------ characters and text
Digits == {"0", "1", "2", "3", "4", "5", "6", "7", "8", "9"}
Letters == {"a", "b", "e", "f", "l", "o", "p", "r", "s", "t", "x"}
DigitVal(c) ==
  CASE c = "0" -> 0 [] c = "1" -> 1 [] c = "2" -> 2 [] c = "3" -> 3
    [] c = "4" -> 4 [] c = "5" -> 5 [] c = "6" -> 6 [] c = "7" -> 7
    [] c = "8" -> 8 [] c = "9" -> 9

\* [\/\-\.]
IsSep(c) == c \in {"/", "-", "."}
\* \d
IsDigit(c) == c \in Digits
\* \w
IsWord(c) == c \in Digits \cup Letters \cup {"_"}

\* ------------------------------------------------- the two date patterns
\* A pattern is the sequence of its three capture groups: "d12" is (\d{1,2}),
\* "d4" is (\d{4}); the groups are separated by [\/\-\.] and the whole is
\* enclosed in \b ... \b.
PatternDMY == <<"d12", "d12", "d4">>
PatternYMD == <<"d4", "d12", "d12">>
datePatterns == <<PatternDMY, PatternYMD>>

\* \b at position i (between t[i-1] and t[i]).
WordBoundary(t, i) ==
  LET left == i > 1 /\ IsWord(t[i - 1])
      right == i <= Len(t) /\ IsWord(t[i])
  IN left # right

AllDigits(t, from, n) ==
  /\ from + n - 1 <= Len(t)
  /\ \A k \in from .. (from + n - 1) : IsDigit(t[k])

\* The pattern matches at i with groups of l[1], l[2], l[3] digits.
MatchesAt(t, i, l) ==
  LET s1 == i + l[1]
      g2 == s1 + 1
      s2 == g2 + l[2]
      g3 == s2 + 1
      end == g3 + l[3]
  IN /\ WordBoundary(t, i)
     /\ AllDigits(t, i, l[1])
     /\ s1 <= Len(t) /\ IsSep(t[s1])
     /\ AllDigits(t, g2, l[2])
     /\ s2 <= Len(t) /\ IsSep(t[s2])
     /\ AllDigits(t, g3, l[3])
     /\ WordBoundary(t, end)

\* Group lengths in the order a greedy backtracking matcher tries them:
\* (\d{1,2}) takes two digits first, then one.
GroupLengths(pattern) ==
  IF pattern[1] = "d4"
  THEN <<<<4, 2, 2>>, <<4, 2, 1>>, <<4, 1, 2>>, <<4, 1, 1>>>>
  ELSE <<<<2, 2, 4>>, <<2, 1, 4>>, <<1, 2, 4>>, <<1, 1, 4>>>>

\* The match the matcher finds at position i, or <<>> when there is none:
\* <<group 1, group 2, group 3, position after the match>>.
MatchAt(t, i, pattern) ==
  IF ~(IsDigit(t[i]) /\ WordBoundary(t, i)) THEN <<>>
  ELSE
    LET ls == GroupLengths(pattern)
        ok == {n \in 1 .. Len(ls) : MatchesAt(t, i, ls[n])}
    IN IF ok = {} THEN <<>>
       ELSE LET n == CHOOSE n \in ok : \A m \in ok : n <= m
                l == ls[n]
                g2 == i + l[1] + 1
                g3 == g2 + l[2] + 1
            IN <<SubSeq(t, i, i + l[1] - 1), SubSeq(t, g2, g2 + l[2] - 1),
                 SubSeq(t, g3, g3 + l[3] - 1), g3 + l[3]>>

\* pattern.exec(text) with the g flag, called until it returns null:
\* the matches from position `from` on, left to right, non-overlapping.
RECURSIVE ExecAll(_, _, _)
ExecAll(t, from, pattern) ==
  IF from > Len(t) THEN <<>>
  ELSE LET m == MatchAt(t, from, pattern)
       IN IF m = <<>> THEN ExecAll(t, from + 1, pattern)
          ELSE <<m>> \o ExecAll(t, m[4], pattern)

\* ------------------------------------------------------ building dateStr
\* s.padStart(2, '0')
PadStart2(s) == IF Len(s) < 2 THEN <<"0">> \o s ELSE s

\* pattern.source.includes('(\\d{4})')
SourceIncludesD4(pattern) == \E k \in 1 .. Len(pattern) : pattern[k] = "d4"

Dash == <<"-">>

\* The two branches of the loop body: `${year}-${month}-${day}`.
DateStr(pattern, m) ==
  IF SourceIncludesD4(pattern)
  THEN m[1] \o Dash \o PadStart2(m[2]) \o Dash \o PadStart2(m[3])
  ELSE m[3] \o Dash \o PadStart2(m[2]) \o Dash \o PadStart2(m[1])

\* ----------------------------------------------------------- new Date(s)
RECURSIVE Num(_)
Num(s) == IF s = <<>> THEN 0
          ELSE Num(SubSeq(s, 1, Len(s) - 1)) * 10 + DigitVal(s[Len(s)])

IsLeap(y) == (y % 4 = 0 /\ y % 100 # 0) \/ y % 400 = 0
DaysInMonth(y, m) ==
  IF m = 2 THEN (IF IsLeap(y) THEN 29 ELSE 28)
  ELSE IF m \in {4, 6, 9, 11} THEN 30 ELSE 31

\* YYYY-MM-DD, the date-only form of the ECMAScript date-time string format.
IsIsoDate(s) ==
  /\ Len(s) = 10
  /\ s[5] = "-" /\ s[8] = "-"
  /\ \A k \in {1, 2, 3, 4, 6, 7, 9, 10} : IsDigit(s[k])

Invalid == [valid |-> FALSE, fullYear |-> 0]

\* A date-only ISO string is midnight UTC; getFullYear() is local time, so
\* west of UTC January 1st is still the previous year.  A day beyond the
\* month's length rolls over under V8 and is Invalid Date elsewhere.
ParseIso(s, west, eng) ==
  LET y == Num(SubSeq(s, 1, 4))
      mo == Num(SubSeq(s, 6, 7))
      d == Num(SubSeq(s, 9, 10))
  IN IF mo \notin 1 .. 12 \/ d \notin 1 .. 31 THEN Invalid
     ELSE IF d > DaysInMonth(y, mo) /\ eng # "v8" THEN Invalid
     ELSE [valid |-> TRUE,
           fullYear |-> IF west /\ mo = 1 /\ d = 1 THEN y - 1 ELSE y]

\* Any other string is parsed in an implementation-defined way: V8 reads
\* n-n-nnnn as month-day-year in local time, other engines give Invalid Date.
ParseLegacy(s, eng) ==
  LET dashes == {k \in 1 .. Len(s) : s[k] = "-"}
      d1 == CHOOSE k \in dashes : \A j \in dashes : k <= j
      d2 == CHOOSE k \in dashes : \A j \in dashes : j <= k
      mo == Num(SubSeq(s, 1, d1 - 1))
      d == Num(SubSeq(s, d1 + 1, d2 - 1))
      y == Num(SubSeq(s, d2 + 1, Len(s)))
  IN IF eng # "v8" \/ Cardinality(dashes) # 2 THEN Invalid
     ELSE IF mo \notin 1 .. 12 \/ d \notin 1 .. 31 THEN Invalid
     ELSE [valid |-> TRUE, fullYear |-> y]

NewDate(s, west, eng) ==
  IF IsIsoDate(s) THEN ParseIso(s, west, eng) ELSE ParseLegacy(s, eng)

YearLow == 2020
YearHigh == 2050

\* !isNaN(date.getTime()) && date.getFullYear() > 2020 && date.getFullYear() < 2050
DateAccepted(date) ==
  date.valid /\ date.fullYear > YearLow /\ date.fullYear < YearHigh

\* The dateStr values one pattern pushes, in match order.
PatternDates(t, pattern, west, eng) ==
  LET ms == ExecAll(t, 1, pattern)
      strs == [k \in 1 .. Len(ms) |-> DateStr(pattern, ms[k])]
  IN SelectSeq(strs, LAMBDA s : DateAccepted(NewDate(s, west, eng)))

\* foundDates after datePatterns.forEach(...)
FoundDates(t, west, eng) ==
  PatternDates(t, datePatterns[1], west, eng)
    \o PatternDates(t, datePatterns[2], west, eng)

\* ------------------------------------------------------ recognized texts
\* Texts are built from these fragments (a text is a sequence of characters).
\* "best before 31-12-2025"
FragBestBefore ==
  <<"b", "e", "s", "t", " ", "b", "e", "f", "o", "r", "e", " ", "3", "1",
    "-", "1", "2", "-", "2", "0", "2", "5">>
\* "exp 01/02/2030"
FragExp ==
  <<"e", "x", "p", " ", "0", "1", "/", "0", "2", "/", "2", "0", "3", "0">>
\* " also 2031-03-04"
FragAlso ==
  <<" ", "a", "l", "s", "o", " ", "2", "0", "3", "1", "-", "0", "3", "-",
    "0", "4">>
\* " 5.6.2019"
FragOld ==
  <<" ", "5", ".", "6", ".", "2", "0", "1", "9">>
\* " 2050-01-01"
FragEdge ==
  <<" ", "2", "0", "5", "0", "-", "0", "1", "-", "0", "1">>
\* "lot x"
FragLot ==
  <<"l", "o", "t", " ", "x">>

Fragments == <<FragBestBefore, FragExp, FragAlso, FragOld, FragEdge, FragLot>>

\* A recognized text is named by the fragments it is made of.
TextIds == UNION {[1 .. n -> 1 .. Len(Fragments)] : n \in 0 .. MaxFrags}

RECURSIVE Concat(_)
Concat(fs) == IF fs = <<>> THEN <<>> ELSE Fragments[Head(fs)] \o Concat(Tail(fs))

Engines == {"v8", "strict"}

\* foundDates for every text, time zone side and engine, tabulated once:
\* rows <<west, engine, text, foundDates>>.
FoundTable ==
  {<<w, e, fs, FoundDates(Concat(fs), w, e)>> :
     w \in BOOLEAN, e \in Engines, fs \in TextIds}

\* =========================================================== barcode dialog
StartDelayMs == 100
SuccessDelayMs == 800
DebounceMs == 2000

\* What getUserMedia, play() or decodeFromVideoDevice can reject with: the
\* error's name, or for other names a word its message includes.
Errors == {"NotAllowedError", "NotReadableError", "Error"}

\* errorMessage chosen by the catch block of startScanning.
ErrorMessage(err) ==
  IF err = "NotAllowedError" THEN "permission-denied"
  ELSE IF err = "NotFoundError" THEN "no-camera"
  ELSE IF err = "NotReadableError" THEN "camera-busy"
  ELSE IF err = "Permission" THEN "permission-settings"
  ELSE IF err = "constraints" THEN "camera-constraints"
  ELSE "generic"

\* What detect() resolves with: the rawValues of the barcodes in the frame.
Barcodes == {<<>>, <<"B", "A">>}
\* result.getText() of a ZXing result.
ZxTexts == {"A"}

\* videoRef.current is set while the <video> element is rendered.
VideoRef == bMounted /\ content /\ bar.error = "null"

\* A state setter: dropped once the component is unmounted.
Set(b, field, value) == IF bMounted THEN [b EXCEPT ![field] = value] ELSE b

\* stopScanning
stopScanning(b) ==
  LET cancelled == {r \in b.runs : r.pc = "raf" /\ r.id = b.animationRef}
      stopped == {r \in b.runs : r.pc = "zxing" /\ r.id = b.controlsRef}
      refs == [b EXCEPT !.animationRef = 0,
                        !.barcodeDetectorRef = FALSE,
                        !.controlsRef = 0,
                        !.scannerRef = FALSE,
                        !.streamRef = 0,
                        !.runs = b.runs \ (cancelled \cup stopped),
                        !.zx = b.zx \ {b.controlsRef},
                        !.live = b.live \ {b.streamRef}]
  IN Set(Set(Set(refs, "scanning", FALSE), "error", "null"), "success", FALSE)

\* The catch block of startScanning.
catch(b, err) == Set(Set(b, "scanning", FALSE), "error", ErrorMessage(err))

\* startScanning up to its first await, called as a closure that captured
\* scanning = cS and lastDetectionTime = cL in cycle sess.
startScanning(b, sess, cS, cL) ==
  LET b1 == Set(Set(Set(Set(b, "error", "null"), "success", FALSE),
                    "scanning", TRUE), "lastDetectionTime", 0)
      run == [id |-> b.started + 1, sess |-> sess, cScanning |-> cS,
              cLast |-> cL, pc |-> IF native THEN "gum" ELSE "decode",
              lastAt |-> 0]
  IN IF ~VideoRef THEN catch(b1, "Error")
     ELSE [b1 EXCEPT !.runs = @ \cup {run},
                     !.started = @ + 1,
                     !.scannerRef = IF native THEN @ ELSE TRUE]

BarInit ==
  /\ bOpen = FALSE
  /\ bMounted = TRUE
  /\ content = FALSE
  /\ native \in BOOLEAN
  /\ now = NowStart
  /\ bar = [scanning |-> FALSE, error |-> "null", success |-> FALSE,
            lastDetectionTime |-> 0, scannerRef |-> FALSE,
            barcodeDetectorRef |-> FALSE, animationRef |-> 0,
            streamRef |-> 0, controlsRef |-> 0, runs |-> {}, live |-> {},
            zx |-> {}, started |-> 0]
  /\ startTimers = {}
  /\ deliveries = {}
  /\ bSess = 0
  /\ retries = 0
  /\ results = 0
  /\ detected = [s \in 1 .. MaxOpens |-> 0]
  /\ bCalls = <<>>

\* The barcode dialog left alone.
BarIdle == BarInit /\ native

\* now - lastDetectionTime > 2000, with the lastDetectionTime the closure of
\* run r captured.
Accepts(r) == now - r.cLast > DebounceMs

\* setLastDetectionTime(now); setSuccess(true)
accept(b) == Set(Set(b, "lastDetectionTime", now), "success", TRUE)

\* setTimeout(() => { stopScanning(); onDetected(code); onClose(); }, 800)
Delivery(r, code) ==
  [id |-> results + 1, sess |-> r.sess, code |-> code,
   at |-> now, prev |-> r.lastAt]

\* Run r moves on to pc; ok: a result was accepted through its closure.
Replace(b, r, pc, ok) ==
  [b EXCEPT !.runs = (@ \ {r}) \cup
     {[r EXCEPT !.pc = pc, !.lastAt = IF ok THEN now ELSE @]}]
Drop(b, r) == [b EXCEPT !.runs = @ \ {r}]

\* ---------------------------------------------------------------- actions
\* The parent sets open to true: the previous effect's cleanup (stopScanning),
\* then the effect arms the 100 ms timer with the startScanning of this render.
BarOpen ==
  /\ bMounted /\ ~bOpen /\ bSess < MaxOpens
  /\ bOpen' = TRUE
  /\ content' = TRUE
  /\ bSess' = bSess + 1
  /\ bar' = stopScanning(bar)
  /\ startTimers' = startTimers \cup
       {[sess |-> bSess + 1, due |-> now + StartDelayMs,
         cScanning |-> bar.scanning, cLast |-> bar.lastDetectionTime]}
  /\ bCalls' = <<>>
  /\ UNCHANGED <<bMounted, native, now, deliveries, retries, results,
                 detected, evars>>

\* The parent sets open to false: the cleanup and the effect both call
\* stopScanning.
BarClose ==
  /\ bMounted /\ bOpen
  /\ bOpen' = FALSE
  /\ bar' = stopScanning(stopScanning(bar))
  /\ bCalls' = <<>>
  /\ UNCHANGED <<bMounted, content, native, now, startTimers, deliveries,
                 bSess, retries, results, detected,
                 evars>>

\* The Dialog removes its content from the DOM some time after it closed.
ContentUnmount ==
  /\ bMounted /\ ~bOpen /\ content
  /\ content' = FALSE
  /\ bCalls' = <<>>
  /\ UNCHANGED <<bOpen, bMounted, native, now, bar, startTimers, deliveries,
                 bSess, retries, results, detected,
                 evars>>

\* The component is unmounted: the cleanup calls stopScanning.
BarUnmount ==
  /\ bMounted
  /\ bMounted' = FALSE
  /\ content' = FALSE
  /\ bar' = stopScanning(bar)
  /\ bCalls' = <<>>
  /\ UNCHANGED <<bOpen, native, now, startTimers, deliveries, bSess, retries,
                 results, detected, evars>>

\* The 100 ms timer fires: startScanning up to its first await.
StartTimerFires ==
  \E t \in startTimers :
    /\ now >= t.due
    /\ startTimers' = startTimers \ {t}
    /\ bar' = startScanning(bar, t.sess, t.cScanning, t.cLast)
    /\ bCalls' = <<>>
    /\ UNCHANGED <<bOpen, bMounted, content, native, now, deliveries, bSess,
                   retries, results, detected, evars>>

\* The retry button, rendered while error is set: startScanning of the
\* current render.
Retry ==
  /\ bMounted /\ bOpen /\ content /\ bar.error # "null"
  /\ retries < MaxRetries
  /\ retries' = retries + 1
  /\ bar' = startScanning(bar, bSess, bar.scanning, bar.lastDetectionTime)
  /\ bCalls' = <<>>
  /\ UNCHANGED <<bOpen, bMounted, content, native, now, startTimers,
                 deliveries, bSess, results, detected,
                 evars>>

\* getUserMedia resolved: streamRef.current = stream, then
\* videoRef.current.srcObject = stream (a TypeError when the video is gone)
\* and videoRef.current.play() is awaited.
GumResolves ==
  \E r \in bar.runs :
    /\ r.pc = "gum"
    /\ LET b1 == [bar EXCEPT !.streamRef = r.id, !.live = @ \cup {r.id}]
       IN bar' = IF VideoRef THEN Replace(b1, r, "play", FALSE)
                 ELSE catch(Drop(b1, r), "Error")
    /\ bCalls' = <<>>
    /\ UNCHANGED <<bOpen, bMounted, content, native, now, startTimers,
                   deliveries, bSess, retries, results, detected,
                   evars>>

\* getUserMedia or play() rejected: the catch block.
NativeRejects ==
  \E r \in bar.runs, err \in Errors :
    /\ r.pc \in {"gum", "play"}
    /\ bar' = catch(Drop(bar, r), err)
    /\ bCalls' = <<>>
    /\ UNCHANGED <<bOpen, bMounted, content, native, now, startTimers,
                   deliveries, bSess, retries, results, detected, evars>>

\* play() resolved: the detector is constructed (which may throw) and the
\* first frame callback is requested.
PlayResolves ==
  \E r \in bar.runs, built \in BOOLEAN :
    /\ r.pc = "play"
    /\ bar' = IF built
              THEN Replace([bar EXCEPT !.barcodeDetectorRef = TRUE,
                                       !.animationRef = r.id], r, "raf", FALSE)
              ELSE catch(Drop(bar, r), "Error")
    /\ bCalls' = <<>>
    /\ UNCHANGED <<bOpen, bMounted, content, native, now, startTimers,
                   deliveries, bSess, retries, results, detected, evars>>

\* A requested frame callback runs scan up to the await of detect().
Frame ==
  \E r \in bar.runs :
    /\ r.pc = "raf"
    /\ bar' = IF ~bar.barcodeDetectorRef \/ ~VideoRef THEN Drop(bar, r)
              ELSE Replace(bar, r, "detect", FALSE)
    /\ bCalls' = <<>>
    /\ UNCHANGED <<bOpen, bMounted, content, native, now, startTimers,
                   deliveries, bSess, retries, results, detected, evars>>

\* scan after the await: detect() resolved with barcodes, or threw (thrown:
\* the inner catch only logs); then if (scanning) the next frame is requested.
DetectSettles ==
  \E r \in bar.runs, barcodes \in Barcodes, thrown \in BOOLEAN :
    LET hit == ~thrown /\ barcodes # <<>>
        ok == hit /\ Accepts(r)
        b1 == IF ok THEN accept(bar) ELSE bar
    IN /\ r.pc = "detect"
       /\ thrown => barcodes = <<>>
       /\ hit => results < MaxResults
       /\ results' = IF hit THEN results + 1 ELSE results
       /\ deliveries' = IF ok THEN deliveries \cup {Delivery(r, barcodes[1])}
                        ELSE deliveries
       /\ bar' = IF r.cScanning
                 THEN Replace([b1 EXCEPT !.animationRef = r.id], r, "raf", ok)
                 ELSE Drop(b1, r)
       /\ bCalls' = <<>>
       /\ UNCHANGED <<bOpen, bMounted, content, native, now, startTimers,
                      bSess, retries, detected, evars>>

\* decodeFromVideoDevice resolved: ZXing holds the camera and decodes
\* continuously; controlsRef.current = controls.
DecodeResolves ==
  \E r \in bar.runs :
    /\ r.pc = "decode"
    /\ bar' = Replace([bar EXCEPT !.controlsRef = r.id, !.zx = @ \cup {r.id}],
                      r, "zxing", FALSE)
    /\ bCalls' = <<>>
    /\ UNCHANGED <<bOpen, bMounted, content, native, now, startTimers,
                   deliveries, bSess, retries, results, detected,
                   evars>>

\* decodeFromVideoDevice rejected: the catch block.
DecodeRejects ==
  \E r \in bar.runs, err \in Errors :
    /\ r.pc = "decode"
    /\ bar' = catch(Drop(bar, r), err)
    /\ bCalls' = <<>>
    /\ UNCHANGED <<bOpen, bMounted, content, native, now, startTimers,
                   deliveries, bSess, retries, results, detected, evars>>

\* The ZXing callback is called with a result.
ZxResult ==
  \E r \in bar.runs, text \in ZxTexts :
    LET ok == Accepts(r)
    IN /\ r.pc = "zxing"
       /\ results < MaxResults
       /\ results' = results + 1
       /\ deliveries' = IF ok THEN deliveries \cup {Delivery(r, text)}
                        ELSE deliveries
       /\ bar' = IF ok THEN Replace(accept(bar), r, "zxing", TRUE) ELSE bar
       /\ bCalls' = <<>>
       /\ UNCHANGED <<bOpen, bMounted, content, native, now, startTimers,
                      bSess, retries, detected, evars>>

\* A delivery callback that reports before it stops the session.
deliverBeforeStop(code) ==
  <<<<"onDetected", code>>, <<"stopScanning">>, <<"onClose">>>>

\* A delivery callback that stops and reports but does not close.
deliverWithoutClose(code) == <<<<"stopScanning">>, <<"onDetected", code>>>>

\* The calls of the delivery callback, in order.
deliver(code) == <<<<"stopScanning">>, <<"onDetected", code>>, <<"onClose">>>>

\* The 800 ms timer fires: stopScanning(); onDetected(code); onClose().
Deliver ==
  \E d \in deliveries :
    /\ now >= d.at + SuccessDelayMs
    /\ deliveries' = deliveries \ {d}
    /\ bar' = stopScanning(bar)
    /\ bCalls' = deliver(d.code)
    /\ detected' = [detected EXCEPT ![d.sess] = @ + 1]
    /\ UNCHANGED <<bOpen, bMounted, content, native, now, startTimers, bSess,
                   retries, results, evars>>

\* Time passes.  Timers run in the order of their expiry: the clock does not
\* pass a timer that is due.
Tick ==
  /\ now < NowStart + MaxTicks * TickMs
  /\ \A t \in startTimers : now < t.due
  /\ \A d \in deliveries : now < d.at + SuccessDelayMs
  /\ now' = now + TickMs
  /\ bCalls' = <<>>
  /\ UNCHANGED <<bOpen, bMounted, content, native, bar, startTimers,
                 deliveries, bSess, retries, results, detected, evars>>

NextBarcode ==
  \/ BarOpen
  \/ BarClose
  \/ ContentUnmount
  \/ BarUnmount
  \/ StartTimerFires
  \/ Retry
  \/ GumResolves
  \/ NativeRejects
  \/ PlayResolves
  \/ Frame
  \/ DetectSettles
  \/ DecodeResolves
  \/ DecodeRejects
  \/ ZxResult
  \/ Deliver
  \/ Tick

\* ============================================================ expiry dialog
\* outcome: "idle" (no completion in the last step), "none", "single",
\* "multiple" (the three branches on foundDates.length) or "error" (the catch);
\* text: the recognized text; n: foundDates.length; detected: the argument
\* of onDetected (<<>>: not called); closed: onClose was called; stale: the
\* dialog had been closed or unmounted since the request was made.
NoOcr == [outcome |-> "idle", text |-> <<>>, n |-> 0, detected |-> <<>>,
          closed |-> FALSE, stale |-> FALSE, calls |-> <<>>]

\* The calls of the three branches on foundDates.length, in order.
report(foundDates) ==
  IF Len(foundDates) = 0 THEN <<<<"toast">>>>
  ELSE <<<<"onDetected", foundDates[1]>>, <<"onClose">>, <<"toast">>>>

\* setState of an unmounted component is dropped.
SetState(new, old) == IF expMounted THEN new ELSE old

\* stopCamera as a closure that captured the stream value s:
\* the tracks still live and the stream state after the call.
stopCameraLive(s, live) == IF s # 0 THEN live \ {s} ELSE live
stopCameraState(s, cur) == IF s # 0 THEN 0 ELSE cur

ExpInit ==
  /\ expOpen = FALSE
  /\ expMounted = TRUE
  /\ isScanning = FALSE
  /\ stream = 0
  /\ effectStream = 0
  /\ expLive = {}
  /\ expAcquired = 0
  /\ pendingCam = 0
  /\ pendingOcr = {}
  /\ expSess = 0
  /\ scans = 0
  /\ lastOcr = NoOcr
  /\ tzWest \in BOOLEAN
  /\ engine \in Engines

\* The expiry-date dialog left alone.
ExpIdle == ExpInit /\ ~tzWest /\ engine = "v8"

\* ---------------------------------------------------------------- actions
\* The parent sets open to true: the previous effect's cleanup runs with the
\* closure of the render it was created in, then the effect calls startCamera.
ExpOpen ==
  /\ expMounted /\ ~expOpen /\ expSess < MaxOpens
  /\ expOpen' = TRUE
  /\ expSess' = expSess + 1
  /\ expLive' = stopCameraLive(effectStream, expLive)
  /\ stream' = stopCameraState(effectStream, stream)
  /\ effectStream' = stream
  /\ pendingCam' = pendingCam + 1
  /\ lastOcr' = NoOcr
  /\ UNCHANGED <<expMounted, isScanning, expAcquired, pendingOcr, scans, tzWest, engine, bvars>>

\* The parent sets open to false: the previous cleanup, then the effect of
\* the new render calls stopCamera with the stream of that render.
ExpClose ==
  /\ expMounted /\ expOpen
  /\ expOpen' = FALSE
  /\ expLive' = stopCameraLive(stream, stopCameraLive(effectStream, expLive))
  /\ stream' = stopCameraState(stream, stopCameraState(effectStream, stream))
  /\ effectStream' = stream
  /\ lastOcr' = NoOcr
  /\ UNCHANGED <<expMounted, isScanning, expAcquired, pendingCam, pendingOcr,
                 expSess, scans, tzWest, engine, bvars>>

\* The component is unmounted: only the cleanup of the last effect runs.
ExpUnmount ==
  /\ expMounted
  /\ expMounted' = FALSE
  /\ expLive' = stopCameraLive(effectStream, expLive)
  /\ lastOcr' = NoOcr
  /\ UNCHANGED <<expOpen, isScanning, stream, effectStream, expAcquired,
                 pendingCam, pendingOcr, expSess, scans, tzWest, engine, bvars>>

\* startCamera after the await: getUserMedia resolved with a new stream.
CamResolve ==
  /\ pendingCam > 0
  /\ pendingCam' = pendingCam - 1
  /\ expAcquired' = expAcquired + 1
  /\ expLive' = expLive \cup {expAcquired + 1}
  /\ stream' = SetState(expAcquired + 1, stream)
  /\ lastOcr' = NoOcr
  /\ UNCHANGED <<expOpen, expMounted, isScanning, effectStream, pendingOcr,
                 expSess, scans, tzWest, engine, bvars>>

\* startCamera's catch: getUserMedia rejected, a toast is shown.
CamReject ==
  /\ pendingCam > 0
  /\ pendingCam' = pendingCam - 1
  /\ lastOcr' = NoOcr
  /\ UNCHANGED <<expOpen, expMounted, isScanning, stream, effectStream,
                 expLive, expAcquired, pendingOcr, expSess, scans,
                 tzWest, engine, bvars>>

\* The scan button (enabled when stream is set and isScanning is false):
\* captureAndScan up to the await; ctx is canvas.getContext('2d').
CaptureAndScan ==
  /\ expMounted /\ expOpen /\ stream # 0 /\ ~isScanning /\ scans < MaxScans
  /\ scans' = scans + 1
  /\ isScanning' = TRUE
  /\ \E ctx \in BOOLEAN :
       pendingOcr' = IF ctx THEN pendingOcr \cup {expSess} ELSE pendingOcr
  /\ lastOcr' = NoOcr
  /\ UNCHANGED <<expOpen, expMounted, stream, effectStream, expLive,
                 expAcquired, pendingCam, expSess, tzWest, engine, bvars>>

\* captureAndScan after the await: Tesseract.recognize resolved with the text
\* Concat(text).
OcrResolve ==
  \E req \in pendingOcr, row \in FoundTable :
    LET text == row[3]
        foundDates == row[4]
        n == Len(foundDates)
    IN /\ row[1] = tzWest /\ row[2] = engine
       /\ pendingOcr' = pendingOcr \ {req}
       /\ lastOcr' =
            [outcome |-> IF n = 0 THEN "none"
                         ELSE IF n = 1 THEN "single" ELSE "multiple",
             text |-> text,
             n |-> n,
             detected |-> IF n = 0 THEN <<>> ELSE foundDates[1],
             closed |-> n # 0,
             stale |-> ~expMounted \/ ~expOpen \/ req # expSess,
             calls |-> report(foundDates)]
       /\ isScanning' = SetState(FALSE, isScanning)
       /\ UNCHANGED <<expOpen, expMounted, stream, effectStream, expLive,
                      expAcquired, pendingCam, expSess, scans,
                      tzWest, engine, bvars>>

\* captureAndScan's catch: Tesseract.recognize rejected.
OcrReject ==
  \E req \in pendingOcr :
    /\ pendingOcr' = pendingOcr \ {req}
    /\ lastOcr' = [NoOcr EXCEPT !.outcome = "error",
                     !.stale = ~expMounted \/ ~expOpen \/ req # expSess,
                     !.calls = <<<<"toast">>>>]
    /\ isScanning' = SetState(FALSE, isScanning)
    /\ UNCHANGED <<expOpen, expMounted, stream, effectStream, expLive,
                   expAcquired, pendingCam, expSess, scans,
                   tzWest, engine, bvars>>

NextExpiry ==
  \/ ExpOpen
  \/ ExpClose
  \/ ExpUnmount
  \/ CamResolve
  \/ CamReject
  \/ CaptureAndScan
  \/ OcrResolve
  \/ OcrReject

\* ========================================================== specifications
\* The expiry-date dialog alone.
InitExpiry == ExpInit /\ BarIdle
SpecExpiry == InitExpiry /\ [][NextExpiry]_vars

\* The barcode dialog alone.
InitBarcode == BarInit /\ ExpIdle
SpecBarcode == InitBarcode /\ [][NextBarcode]_vars


\* ================================================================== claims
\* ---- what the specification says the extraction yields ----
SpecYear(pattern, m) == Num(IF pattern = PatternYMD THEN m[1] ELSE m[3])
SpecMonth(pattern, m) == Num(m[2])
SpecDay(pattern, m) == Num(IF pattern = PatternYMD THEN m[3] ELSE m[1])

\* YYYY-MM-DD with month and day zero-padded.
SpecIso(pattern, m) ==
  IF pattern = PatternYMD
  THEN m[1] \o Dash \o PadStart2(m[2]) \o Dash \o PadStart2(m[3])
  ELSE m[3] \o Dash \o PadStart2(m[2]) \o Dash \o PadStart2(m[1])

YearInRange(pattern, m) ==
  SpecYear(pattern, m) > YearLow /\ SpecYear(pattern, m) < YearHigh

CalendarValid(pattern, m) ==
  /\ SpecMonth(pattern, m) \in 1 .. 12
  /\ SpecDay(pattern, m) \in 1 .. DaysInMonth(SpecYear(pattern, m), SpecMonth(pattern, m))

\* All matches in scan order: day-month-year matches, then year-month-day.
SpecMatches(t) ==
  LET tag(pattern) ==
        LET ms == ExecAll(t, 1, pattern)
        IN [k \in 1 .. Len(ms) |-> [pattern |-> pattern, m |-> ms[k]]]
  IN tag(PatternDMY) \o tag(PatternYMD)

SpecValidMatches(t) ==
  SelectSeq(SpecMatches(t),
            LAMBDA x : CalendarValid(x.pattern, x.m) /\ YearInRange(x.pattern, x.m))

SpecCandidates(t) ==
  LET v == SpecValidMatches(t)
  IN [k \in 1 .. Len(v) |-> SpecIso(v[k].pattern, v[k].m)]

\* The last step completed a captureAndScan whose recognition succeeded.
OcrFinished == lastOcr.outcome \in {"none", "single", "multiple"}
OcrText == Concat(lastOcr.text)

\* C1: in the barcode dialog onDetected is invoked at most once per open/close
\* cycle, for either back-end, even when several detection results arrive
\* before the 800 ms delivery timer of the first one has fired.
C1_OncePerCycle == \A s \in 1 .. MaxOpens : detected[s] <= 1

\* C2: a detection result is accepted (Success set, a delivery scheduled) only
\* if now - lastAcceptedAt > 2000 ms, lastAcceptedAt being the time of the
\* most recently accepted result of the session (0 when there is none).
C2_Debounce == \A d \in deliveries : d.at - d.prev > DebounceMs

\* C3: if the expiry dialog is closed or unmounted while a recognition request
\* is pending, onDetected is not invoked when that request later resolves.
C3_NoStaleDetection ==
  lastOcr.stale => lastOcr.outcome \notin {"single", "multiple"}

\* C4: once the expiry dialog is closed or unmounted and no getUserMedia call
\* is pending any more, every stream startCamera obtained has been stopped.
C4_CameraReleased ==
  ((~expOpen \/ ~expMounted) /\ pendingCam = 0) => expLive = {}

\* No timer and no await of the barcode dialog is pending any more.
BarQuiet ==
  /\ startTimers = {}
  /\ deliveries = {}
  /\ \A r \in bar.runs : r.pc = "zxing"

\* C5: once the barcode dialog is closed or unmounted and all pending
\* callbacks have run, no camera stream and no ZXing control is active and no
\* detection work is scheduled.
C5_BarcodeReleased ==
  ((~bOpen \/ ~bMounted) /\ BarQuiet) =>
     (bar.live = {} /\ bar.zx = {} /\ bar.runs = {})

\* C6: at most one camera stream is active per dialog instance at any time
\* (no stream is acquired while an earlier one still has unstopped tracks).
C6_OneStream == Cardinality(expLive) <= 1

\* The same for the barcode dialog (ZXing holds its own camera stream).
C6_OneStreamBarcode == Cardinality(bar.live) + Cardinality(bar.zx) <= 1

\* C7: for a text with exactly one valid match, a day-month-year one, the
\* outcome is SingleFound and onDetected receives YYYY-MM-DD built from
\* year = third group, month = second group, day = first group.
C7_SingleDMY ==
  (OcrFinished /\ Len(SpecValidMatches(OcrText)) = 1
     /\ SpecValidMatches(OcrText)[1].pattern = PatternDMY)
  => (lastOcr.outcome = "single"
      /\ lastOcr.detected = SpecCandidates(OcrText)[1])

\* C8: when the text yields several valid matches, onDetected receives the
\* first in scan order (day-month-year matches left to right, then
\* year-month-day matches left to right).
C8_FirstInScanOrder ==
  (OcrFinished /\ Len(SpecCandidates(OcrText)) >= 2)
  => lastOcr.detected = SpecCandidates(OcrText)[1]

\* C9: a match whose year is not strictly between 2020 and 2050 is never the
\* value passed to onDetected and does not count toward the outcome.
C9_YearExcluded ==
  OcrFinished =>
    LET ms == SpecMatches(OcrText)
        inside == {k \in 1 .. Len(ms) : YearInRange(ms[k].pattern, ms[k].m)}
        outside == {SpecIso(ms[k].pattern, ms[k].m) :
                      k \in (1 .. Len(ms)) \ inside}
    IN /\ lastOcr.n <= Cardinality(inside)
       /\ lastOcr.detected \notin outside

\* C10: when the text has no valid date match the outcome is NoneFound:
\* neither onDetected nor onClose is invoked.
C10_NoneFound ==
  (OcrFinished /\ SpecCandidates(OcrText) = <<>>)
  => (lastOcr.outcome = "none" /\ lastOcr.detected = <<>> /\ ~lastOcr.closed)

\* C11: when getUserMedia (called by startScanning, or by ZXing inside
\* decodeFromVideoDevice) rejects with NotAllowedError in the open session,
\* then afterwards no stream or control handle is held, scanning is false, no
\* frame callback is scheduled, the error is the permission-denied message
\* and no onDetected call has been made or is pending for the session.
C11_PermissionDenied ==
  [][\A r \in bar.runs :
       (/\ bMounted /\ bOpen /\ r.sess = bSess
        /\ r.pc \in {"gum", "decode"}
        /\ ~\E q \in bar'.runs : q.id = r.id
        /\ bar'.error = ErrorMessage("NotAllowedError"))
       => (/\ bar'.streamRef = 0 /\ bar'.controlsRef = 0
           /\ ~bar'.scanning
           /\ \A q \in bar'.runs : q.pc \notin {"raf", "detect"}
           /\ detected'[r.sess] = 0
           /\ \A d \in deliveries' : d.sess # r.sess)]_vars

\* C12: stop is idempotent in both dialogs: calling stopScanning, or a
\* stopCamera closure the component holds (the one of the current render, the
\* one the effect cleanup kept), twice in a row has the effect of calling it
\* once, and afterwards no handle is held and no stream is active.
C12_StopIdempotent ==
  /\ LET b1 == stopScanning(bar)
         b2 == stopScanning(b1)
     IN /\ b2 = b1
        /\ b2.streamRef = 0 /\ b2.controlsRef = 0 /\ b2.animationRef = 0
        /\ b2.live = {} /\ b2.zx = {}
  /\ \A c \in {stream, effectStream} :
       LET live1 == stopCameraLive(c, expLive)
           live2 == stopCameraLive(c, live1)
           s1 == stopCameraState(c, stream)
           s2 == stopCameraState(c, s1)
       IN live2 = live1 /\ s2 = s1 /\ live2 = {} /\ s2 = 0

\* In the sequence calls every onDetected is directly followed by onClose.
ClosesAfterDetected(calls) ==
  \A i \in 1 .. Len(calls) :
    calls[i][1] = "onDetected" =>
      (i < Len(calls) /\ calls[i + 1] = <<"onClose">>)

\* C13: in both dialogs every invocation of onDetected is immediately
\* followed by an invocation of onClose, nothing of the dialog in between.
C13_DetectedThenClose ==
  ClosesAfterDetected(bCalls) /\ ClosesAfterDetected(lastOcr.calls)

\* The delivery callback of the barcode dialog has just called onDetected.
C13_Witness == \E i \in 1 .. Len(bCalls) : bCalls[i][1] = "onDetected"

\* C14: in the native back-end, after a scan iteration that delivered nothing
\* (no barcode, rejected by the debounce, or detect() threw) the next
\* iteration is requested, as long as the session has not been stopped.
C14_LoopContinues ==
  [][\A r \in bar.runs :
       (/\ r.pc = "detect"
        /\ bMounted /\ bOpen /\ bOpen' /\ bMounted'
        /\ r.sess = bSess /\ bar.barcodeDetectorRef
        /\ ~\E q \in bar'.runs : q.id = r.id /\ q.pc = "detect"
        /\ deliveries' = deliveries)
       => \E q \in bar'.runs : q.id = r.id /\ q.pc = "raf"]_vars

\* C15: once stopScanning has run (the dialog is closed or unmounted), the
\* frame loop stops: a scan iteration whose detect() call was in flight then
\* requests no further frame callback.
C15_LoopStops ==
  [][\A r \in bar.runs :
       (r.pc = "detect" /\ (~bOpen \/ ~bMounted))
       => ~\E q \in bar'.runs : q.id = r.id /\ q.pc = "raf"]_vars

\* C16: in the expiry dialog isScanning is false once captureAndScan has
\* finished, on every exit path: it is never true with no recognition request
\* pending.
C16_ScanningCleared == (expMounted /\ isScanning) => pendingOcr # {}

\* barcodes[0].rawValue of the non-empty detect() results.
FirstValues == {b[1] : b \in Barcodes \ {<<>>}}

C18_OneDetect == Cardinality({r \in bar.runs : r.pc = "detect"}) <= 1

\* C19: onDetected and onClose are never invoked by the barcode dialog while
\* it is closed (or unmounted): a delivery pending at the close is dropped.
C19_NoDeliveryWhileClosed ==
  [][bCalls' # <<>> => (bOpen /\ bMounted)]_vars

\* C20: whenever the barcode dialog shows an error, no camera stream is held
\* and no frame loop is scheduled, also when startScanning failed after
\* getUserMedia had succeeded.
C20_ErrorHoldsNothing ==
  (bMounted /\ bar.error # "null") =>
     (/\ bar.streamRef = 0 /\ bar.controlsRef = 0
      /\ \A r \in bar.runs : r.pc \notin {"raf", "detect"})

====
